---- MODULE Spec2Model ----
(***************************************************************************)
(* The markdown link checker (latest revision, src/unnamed/part_000).      *)
(*                                                                         *)
(* main() globs the markdown files, launches a puppeteer cluster of        *)
(* clusterMaxConcurrent browser contexts, starts one async task per file   *)
(* (read, extract links, submit one checkLink per link, await              *)
(* Promise.allSettled, print the file's block) and, once every file task   *)
(* has settled, prints the summary and exits.                              *)
(*                                                                         *)
(* Node runs the program on one thread: every action below is one          *)
(* macrotask (an I/O completion) together with the promise continuations   *)
(* (microtasks) it makes runnable.                                         *)
(***************************************************************************)
EXTENDS Integers, Sequences, FiniteSets, TLC

(* ------------------------------ bounds --------------------------------- *)

\* Number of markdown files the glob may return.
MaxFiles == 2

\* Number of link occurrences in the whole scanned tree.
MaxLinks == 2

\* Size of the context pool. The program sets 10 (part_000 line 17); the
\* model scales it down so that submissions outnumber the contexts.
clusterMaxConcurrent == 1

(* --------------------------- input domains ----------------------------- *)

\* The hrefs a markdown file may contain (the same href may occur twice).
Hrefs == {"a", "b"}

\* The HTTP statuses a navigation or a HEAD probe may answer.
Statuses == {200, 404}

RECURSIVE SeqsUpTo(_, _)
SeqsUpTo(S, n) ==
    IF n = 0 THEN {<<>>}
    ELSE LET shorter == SeqsUpTo(S, n - 1)
         IN  shorter \cup {Append(s, x) : s \in {t \in shorter : Len(t) = n - 1}, x \in S}

(* ------------------------------ values --------------------------------- *)

\* What an awaited operation (cluster.execute, fetch) produced.
NoResult == [kind |-> "none"]
Threw == [kind |-> "threw"]
Returned(s) == [kind |-> "status", status |-> s]
Results == {Threw} \cup {Returned(s) : s \in Statuses}

\* The value a checkLink promise is fulfilled with; `undefined` is the
\* value of a rejected promise's allSettled entry.
Undefined == [kind |-> "undefined"]
NoError == "none"
PuppeteerError == "puppeteerError"

VARIABLES
    pc,            \* where main() is: "glob", "launch", "waiting", "exited"
    exitCode,      \* process exit status, -1 while the process runs
    files,         \* the glob's result, in discovery order
    fileState,     \* per file task: "reading", "awaiting", "fulfilled", "rejected"
    links,         \* per file: the hrefs markdownLinkExtractor returned
    checks,        \* per file: one record per link check (the checkLink promise)
    jobQueue,      \* the cluster's queue of submitted, not yet started jobs
    submitted,     \* history: jobs in the order cluster.execute was called
    started,       \* history: jobs in the order a context picked them up
    countAllLinks, \* let countAllLinks
    countFiles,    \* let countFiles
    allErrors,     \* const allErrors
    printed,       \* the per-file header lines, in print order
    report,        \* per file: the per-link lines printed under its header
    summary,       \* what the summary section printed
    cluster,       \* the puppeteer cluster: how often launched, whether it is up
    text,          \* the string under work in the text-function specification
    overtaken      \* history, per file: a check settled before an earlier one had

vars == <<pc, exitCode, files, fileState, links, checks, jobQueue, submitted,
          started, countAllLinks, countFiles, allErrors, printed,
          report, summary, cluster, text, overtaken>>

FileIds == 1..MaxFiles

NoSummary == [header |-> FALSE, table |-> FALSE, rows |-> 0, totals |-> FALSE,
              totalLinks |-> 0, totalFiles |-> 0, failures |-> 0]

\* Before line 36 there is no cluster.
NoCluster == [launches |-> 0, up |-> FALSE]

\* The run of main() works on no string of the text-function specification.
NoText == [pc |-> "idle"]

Init ==
    /\ pc = "glob"
    /\ exitCode = -1
    /\ files = <<>>
    /\ fileState = [f \in FileIds |-> "none"]
    /\ links = [f \in FileIds |-> <<>>]
    /\ checks = [f \in FileIds |-> <<>>]
    /\ jobQueue = <<>>
    /\ submitted = <<>>
    /\ started = <<>>
    /\ countAllLinks = 0
    /\ countFiles = 1
    /\ allErrors = <<>>
    /\ printed = <<>>
    /\ report = [f \in FileIds |-> <<>>]
    /\ summary = NoSummary
    /\ cluster = NoCluster
    /\ text = NoText
    /\ overtaken = [f \in FileIds |-> FALSE]

(* ------------------------- the per-file report ------------------------- *)

\* A checkLink promise right after links.map(checkFileLink) called it: the
\* function ran up to `await cluster.execute(href)` (lines 118-128).
NewCheck(href) ==
    [st |-> "queued", href |-> href, primary |-> NoResult, fetched |-> FALSE,
     fallback |-> NoResult, value |-> Undefined]

IsSettled(c) == c.st \in {"fulfilled", "rejected"}

\* Variant: Promise.all in place of Promise.allSettled, as the earlier
\* revision's checkFileForDeadLinks had it: settles when every check is
\* fulfilled or as soon as one is rejected.
FileChecksSettledLikeAll(cs) ==
    \/ \A i \in 1..Len(cs) : cs[i].st = "fulfilled"
    \/ \E i \in 1..Len(cs) : cs[i].st = "rejected"

\* Promise.allSettled(checks) of one file (line 62) resolves when every
\* check has settled, fulfilled or rejected.
FileChecksSettled(cs) == \A i \in 1..Len(cs) : IsSettled(cs[i])

\* Variant: an outcome that carries an error counts as a failure, as the
\* earlier revision's `if (error) countErrors++` had it.
IsFailureByError(value) ==
    value.error # NoError \/ value.status < 200 \/ value.status >= 300

\* Line 68: the test that sends an outcome to the failure branch.
IsFailure(value) == value.status < 200 \/ value.status >= 300

\* Lines 66-67: `({ value }) => { const { status, original, error } = value`
\* throws a TypeError on the entry of a rejected check, whose value is
\* undefined. FirstThrow is the index of the first such entry, 0 if none.
FirstThrow(cs) ==
    LET bad == {i \in 1..Len(cs) : cs[i].st # "fulfilled"}
    IN  IF bad = {} THEN 0 ELSE CHOOSE i \in bad : \A j \in bad : i <= j

\* The entries completeChecks.forEach handled before it returned or threw.
Reported(cs) ==
    IF FirstThrow(cs) = 0 THEN cs ELSE SubSeq(cs, 1, FirstThrow(cs) - 1)

\* Lines 69 and 75: one printed line per handled entry.
ReportLines(cs) ==
    [i \in 1..Len(Reported(cs)) |->
        [ok |-> ~IsFailure(cs[i].value), status |-> cs[i].value.status,
         original |-> cs[i].value.original]]

\* Line 73: allErrors.push(value) for the handled entries that failed.
NewErrors(cs) ==
    LET vals == [i \in 1..Len(Reported(cs)) |-> cs[i].value]
    IN  SelectSeq(vals, IsFailure)

\* Variant: the header numbered with the file's discovery index, as the
\* earlier revision's `${index + 1})` had it.
ReportFileNumberedByIndex(f, cs) ==
    /\ printed' = Append(printed, [n |-> f, file |-> f, count |-> Len(cs)])
    /\ countFiles' = countFiles + 1
    /\ report' = [report EXCEPT ![f] = ReportLines(cs)]
    /\ allErrors' = allErrors \o NewErrors(cs)
    /\ fileState' = [fileState EXCEPT ![f] =
                        IF FirstThrow(cs) = 0 THEN "fulfilled" ELSE "rejected"]

\* Lines 64-77: the continuation of a file task after its allSettled.
ReportFile(f, cs) ==
    /\ printed' = Append(printed, [n |-> countFiles, file |-> f, count |-> Len(cs)])
    /\ countFiles' = countFiles + 1
    /\ report' = [report EXCEPT ![f] = ReportLines(cs)]
    /\ allErrors' = allErrors \o NewErrors(cs)
    /\ fileState' = [fileState EXCEPT ![f] =
                        IF FirstThrow(cs) = 0 THEN "fulfilled" ELSE "rejected"]

\* The i-th check of cs has settled while an earlier one has not.
Overtakes(cs, i) == IsSettled(cs[i]) /\ \E k \in 1..(i - 1) : ~IsSettled(cs[k])

\* A check of file f settled or moved on, leaving f's checks as cs: the file
\* task continues if that resolved its allSettled.
AfterCheck(f, cs) ==
    IF fileState[f] = "awaiting" /\ FileChecksSettled(cs)
    THEN ReportFile(f, cs)
    ELSE UNCHANGED <<printed, countFiles, report, allErrors, fileState>>

(* ------------------------------- setup --------------------------------- *)

\* Line 29: getFiles resolves with n files.
GlobDone(n) ==
    /\ pc = "glob"
    /\ files' = [i \in 1..n |-> i]
    /\ pc' = "launch"
    /\ UNCHANGED <<exitCode, fileState, links, checks, jobQueue, submitted, started,
                   countAllLinks, countFiles, allErrors, printed,
                   report, summary, cluster, text, overtaken>>

\* Lines 106 and 19-22: the glob fails, main() rejects, the
\* unhandledRejection handler exits with 1.
GlobFail ==
    /\ pc = "glob"
    /\ pc' = "exited"
    /\ exitCode' = 1
    /\ UNCHANGED <<files, fileState, links, checks, jobQueue, submitted, started,
                   countAllLinks, countFiles, allErrors, printed,
                   report, summary, cluster, text, overtaken>>

\* Lines 36-81: the cluster is up; files.map starts every file task, each
\* runs up to its readFile; main awaits the outer allSettled.
LaunchDone ==
    /\ pc = "launch"
    /\ pc' = "waiting"
    /\ cluster' = [launches |-> cluster.launches + 1, up |-> TRUE]
    /\ fileState' = [f \in FileIds |-> IF f <= Len(files) THEN "reading" ELSE "none"]
    /\ UNCHANGED <<exitCode, files, links, checks, jobQueue, submitted, started,
                   countAllLinks, countFiles, allErrors, printed,
                   report, summary, text, overtaken>>

\* Lines 36 and 19-22: Cluster.launch rejects.
LaunchFail ==
    /\ pc = "launch"
    /\ pc' = "exited"
    /\ exitCode' = 1
    /\ UNCHANGED <<files, fileState, links, checks, jobQueue, submitted, started,
                   countAllLinks, countFiles, allErrors, printed,
                   report, summary, cluster, text, overtaken>>

(* ----------------------------- file tasks ------------------------------ *)

\* Variant: the links of a file submitted last to first.
FileJobsReversed(f, n) == [i \in 1..n |-> <<f, n + 1 - i>>]

\* Line 59: links.map(checkFileLink) calls checkLink for the links in
\* order; each call runs up to its cluster.execute, which queues the job.
FileJobs(f, n) == [i \in 1..n |-> <<f, i>>]

\* Lines 54-62: readFile resolved; the links are extracted and counted and
\* one checkLink per link is called, in order, each submitting its job.
ReadDone(f, ls) ==
    /\ pc = "waiting"
    /\ fileState[f] = "reading"
    /\ countAllLinks + Len(ls) <= MaxLinks
    /\ links' = [links EXCEPT ![f] = ls]
    /\ countAllLinks' = countAllLinks + Len(ls)
    /\ LET cs == [i \in 1..Len(ls) |-> NewCheck(ls[i])]
           jobs == FileJobs(f, Len(ls))
       IN  /\ checks' = [checks EXCEPT ![f] = cs]
           /\ jobQueue' = jobQueue \o jobs
           /\ submitted' = submitted \o jobs
           /\ IF FileChecksSettled(cs)
              THEN ReportFile(f, cs)
              ELSE /\ fileState' = [fileState EXCEPT ![f] = "awaiting"]
                   /\ UNCHANGED <<printed, countFiles, report, allErrors>>
    /\ UNCHANGED <<pc, exitCode, files, started, summary, cluster, text, overtaken>>

\* Line 54: readFile rejects, and with it the file task.
ReadFail(f) ==
    /\ pc = "waiting"
    /\ fileState[f] = "reading"
    /\ fileState' = [fileState EXCEPT ![f] = "rejected"]
    /\ UNCHANGED <<pc, exitCode, files, links, checks, jobQueue, submitted, started,
                   countAllLinks, countFiles, allErrors, printed,
                   report, summary, cluster, text, overtaken>>

(* ---------------------------- link checks ------------------------------ *)

\* Variant: the context is held until the whole check, probe included,
\* has settled.
InFlightThroughFallback ==
    {job \in FileIds \X (1..MaxLinks + 1) :
        /\ job[2] <= Len(checks[job[1]])
        /\ checks[job[1]][job[2]].st \in {"primary", "fallback"}}

\* The jobs that hold a context of the pool: cluster.execute (line 128) has
\* started them and has not settled yet.
InFlight ==
    {job \in FileIds \X (1..MaxLinks + 1) :
        /\ job[2] <= Len(checks[job[1]])
        /\ checks[job[1]][job[2]].st = "primary"}

\* Variant: one context too many.
CanStartOffByOne == Cardinality(InFlight) <= clusterMaxConcurrent

\* Line 38: maxConcurrency: clusterMaxConcurrent.
CanStart == Cardinality(InFlight) < clusterMaxConcurrent

\* Line 128, inside cluster.execute: a free context takes the oldest job.
StartPrimary ==
    /\ pc = "waiting"
    /\ jobQueue # <<>>
    /\ CanStart
    /\ LET job == Head(jobQueue)
       IN  /\ checks' = [checks EXCEPT ![job[1]][job[2]].st = "primary"]
           /\ started' = Append(started, job)
    /\ jobQueue' = Tail(jobQueue)
    /\ UNCHANGED <<pc, exitCode, files, fileState, links, submitted,
                   countAllLinks, countFiles, allErrors, printed, report, summary, cluster, text, overtaken>>

\* Variant: a non-2xx answer of the navigation treated like a throw.
AfterPrimaryFallbackOnNon2xx(c, res) ==
    IF res = Threw \/ res.status < 200 \/ res.status >= 300
    THEN [c EXCEPT !.st = "fallback", !.primary = res, !.fetched = TRUE]
    ELSE [c EXCEPT !.st = "fulfilled", !.primary = res,
                   !.value = [status |-> res.status, original |-> c.href,
                              error |-> NoError]]

\* Lines 127-133: what checkLink does with the result of cluster.execute.
AfterPrimary(c, res) ==
    IF res = Threw
    THEN [c EXCEPT !.st = "fallback", !.primary = res, !.fetched = TRUE]
    ELSE [c EXCEPT !.st = "fulfilled", !.primary = res,
                   !.value = [status |-> res.status, original |-> c.href,
                              error |-> NoError]]

\* Lines 126-137: page.goto finished; the context is free again.
PrimaryDone(f, i, res) ==
    /\ pc = "waiting"
    /\ i <= Len(checks[f])
    /\ checks[f][i].st = "primary"
    /\ LET cs == [checks[f] EXCEPT ![i] = AfterPrimary(checks[f][i], res)]
       IN  /\ checks' = [checks EXCEPT ![f] = cs]
           /\ overtaken' = [overtaken EXCEPT ![f] = @ \/ Overtakes(cs, i)]
           /\ AfterCheck(f, cs)
    /\ UNCHANGED <<pc, exitCode, files, links, jobQueue, submitted, started,
                   countAllLinks, summary, cluster, text>>

\* Lines 137-148: what checkLink does with the result of fetch.
AfterFallback(c, res) ==
    IF res = Threw
    THEN [c EXCEPT !.st = "rejected", !.fallback = res]
    ELSE [c EXCEPT !.st = "fulfilled", !.fallback = res,
                   !.value = [status |-> res.status, original |-> c.href,
                              error |-> PuppeteerError]]

\* Lines 137-148: the HEAD probe finished.
FallbackDone(f, i, res) ==
    /\ pc = "waiting"
    /\ i <= Len(checks[f])
    /\ checks[f][i].st = "fallback"
    /\ LET cs == [checks[f] EXCEPT ![i] = AfterFallback(checks[f][i], res)]
       IN  /\ checks' = [checks EXCEPT ![f] = cs]
           /\ overtaken' = [overtaken EXCEPT ![f] = @ \/ Overtakes(cs, i)]
           /\ AfterCheck(f, cs)
    /\ UNCHANGED <<pc, exitCode, files, links, jobQueue, submitted, started,
                   countAllLinks, summary, cluster, text>>

(* ------------------------------ summary -------------------------------- *)

\* Variant: main() goes on to the summary as soon as one file task has
\* settled.
AllFilesSettledAny ==
    \E k \in 1..Len(files) : fileState[files[k]] \in {"fulfilled", "rejected"}

\* Line 81: the outer Promise.allSettled resolves.
AllFilesSettled ==
    \A k \in 1..Len(files) : fileState[files[k]] \in {"fulfilled", "rejected"}

\* Line 90: `({ status, original, file })` reads the field `file` of an
\* outcome; checkLink's outcomes (lines 129 and 148) have none.
HasFile(value) == "file" \in DOMAIN value

\* Lines 90-93: building the row of an entry without `file` calls
\* stripRoot(undefined), which throws a TypeError.
TableThrows(errors) == \E k \in 1..Len(errors) : ~HasFile(errors[k])

\* Lines 83-100, and 19-22 when the table throws. process.exit ends the
\* browsers of the cluster, which the program never closes itself.
Finalize ==
    /\ pc = "waiting"
    /\ AllFilesSettled
    /\ pc' = "exited"
    /\ cluster' = [cluster EXCEPT !.up = FALSE]
    /\ IF TableThrows(allErrors)
       THEN /\ summary' = [NoSummary EXCEPT !.header = TRUE]
            /\ exitCode' = 1
       ELSE /\ summary' = [header |-> TRUE, table |-> TRUE,
                           rows |-> Len(allErrors), totals |-> TRUE,
                           totalLinks |-> countAllLinks, totalFiles |-> Len(files),
                           failures |-> Len(allErrors)]
            /\ exitCode' = 0
    /\ UNCHANGED <<files, fileState, links, checks, jobQueue, submitted, started,
                   countAllLinks, countFiles, allErrors, printed, report, text, overtaken>>

(* --------------------------- specification ----------------------------- *)

Next ==
    \/ \E n \in 0..MaxFiles : GlobDone(n)
    \/ GlobFail
    \/ LaunchDone
    \/ LaunchFail
    \/ \E f \in FileIds, ls \in SeqsUpTo(Hrefs, MaxLinks) : ReadDone(f, ls)
    \/ \E f \in FileIds : ReadFail(f)
    \/ StartPrimary
    \/ \E f \in FileIds, i \in 1..MaxLinks, res \in Results : PrimaryDone(f, i, res)
    \/ \E f \in FileIds, i \in 1..MaxLinks, res \in Results : FallbackDone(f, i, res)
    \/ Finalize

Spec == Init /\ [][Next]_vars

\* What the runtime guarantees to happen once it can. The glob, the launch
\* and every read end; a queued job is picked up by a free context; a
\* navigation ends, at the latest by puppeteer's default 30 s timeouts; the
\* continuation of the outer allSettled runs. The HEAD probe is not in the
\* list: fetch is called with no timeout option (lines 137-147) and
\* node-fetch has none by default, so a host that never answers leaves it
\* pending forever.
Fairness ==
    /\ WF_vars((\E n \in 0..MaxFiles : GlobDone(n)) \/ GlobFail)
    /\ WF_vars(LaunchDone \/ LaunchFail)
    /\ WF_vars((\E f \in FileIds, ls \in SeqsUpTo(Hrefs, MaxLinks) : ReadDone(f, ls))
                  \/ (\E f \in FileIds : ReadFail(f)))
    /\ WF_vars(StartPrimary)
    /\ WF_vars(\E f \in FileIds, i \in 1..MaxLinks, res \in Results : PrimaryDone(f, i, res))
    /\ WF_vars(Finalize)

SpecLive == Init /\ [][Next]_vars /\ Fairness

(* ------------------------------ helpers -------------------------------- *)

Jobs == {job \in FileIds \X (1..MaxLinks) : job[2] <= Len(checks[job[1]])}

Check(job) == checks[job[1]][job[2]]

IsPrefix(s, t) == Len(s) <= Len(t) /\ SubSeq(t, 1, Len(s)) = s

\* main() went past line 81: the setup succeeded and the summary began.
Finalized == pc = "exited" /\ summary.header

\* The file was read and its links were submitted (a file whose readFile
\* failed has a rejected task and no checks; one read with no link is
\* fulfilled at once).
WasRead(f) ==
    \/ fileState[f] = "fulfilled"
    \/ fileState[f] \in {"awaiting", "rejected"} /\ checks[f] # <<>>

\* Every check of a read file has settled.
Complete(f) == WasRead(f) /\ FileChecksSettled(checks[f])

\* A link check whose result is no status in [200,300).
Failing(c) ==
    \/ c.st = "rejected"
    \/ c.st = "fulfilled" /\ ~(c.value.status >= 200 /\ c.value.status < 300)

RECURSIVE SumLinks(_)
SumLinks(n) == IF n = 0 THEN 0 ELSE Len(links[n]) + SumLinks(n - 1)

(* ------------------------------- claims -------------------------------- *)

\* C1: at most clusterMaxConcurrent primary verifications are in flight in
\* any reachable state; the submissions not yet started wait in the queue,
\* in submission order, and the jobs started so far are exactly the first
\* ones submitted, in submission order.
C1_PoolBound ==
    /\ Cardinality(InFlight) <= clusterMaxConcurrent
    /\ IsPrefix(started, submitted)
    /\ submitted = started \o jobQueue
    /\ \A k \in 1..Len(jobQueue) : Check(jobQueue[k]).st = "queued"

\* The pool is full, a job that had to wait was started, another waits.
C1_Witness ==
    /\ Cardinality(InFlight) = clusterMaxConcurrent
    /\ Len(started) > clusterMaxConcurrent

\* C2: the HEAD probe of a link is issued only after the primary strategy
\* threw for that link; when the primary returned a status, 2xx or not, the
\* outcome carries that status and no error and no probe is ever issued.
C2_FallbackOnlyAfterThrow ==
    \A job \in Jobs :
        /\ Check(job).fetched => Check(job).primary = Threw
        /\ Check(job).primary.kind = "status" =>
              /\ ~Check(job).fetched
              /\ Check(job).fallback = NoResult
              /\ Check(job).st = "fulfilled"
              /\ Check(job).value.status = Check(job).primary.status
              /\ Check(job).value.error = NoError

\* One link answered 404 to the navigation, another needed the probe.
C2_Witness ==
    /\ \E job \in Jobs : Check(job).primary = Returned(404) /\ Check(job).st = "fulfilled"
    /\ \E job \in Jobs : Check(job).fetched /\ IsSettled(Check(job))

\* C3: when the primary throws and the HEAD probe returns a status, the
\* outcome carries exactly that status; with status 200 the printed line is
\* a success, the outcome is not in allErrors, and a run fails only if
\* allErrors holds some (hence other) outcome.
C3_FallbackActivation ==
    /\ \A job \in Jobs :
          (Check(job).primary = Threw /\ Check(job).fallback.kind = "status") =>
              /\ Check(job).st = "fulfilled"
              /\ Check(job).value.status = Check(job).fallback.status
              /\ (job[2] <= Len(report[job[1]]) /\ Check(job).fallback.status = 200) =>
                    /\ report[job[1]][job[2]].ok
                    /\ report[job[1]][job[2]].status = 200
    /\ \A k \in 1..Len(allErrors) : allErrors[k].status # 200
    /\ (Finalized /\ exitCode # 0) => allErrors # <<>>

\* A run whose link needed the probe, got 200 from it, and ended with 0.
C3_Witness ==
    /\ Finalized
    /\ exitCode = 0
    /\ \E job \in Jobs :
          /\ Check(job).primary = Threw
          /\ Check(job).fallback = Returned(200)
          /\ job[2] <= Len(report[job[1]])
          /\ report[job[1]][job[2]].ok

\* C4 (as claimed): when the primary and the HEAD probe both fail, the check
\* is still fulfilled with an outcome that carries the error, never rejected.
C4_BothFailYieldOutcome ==
    \A job \in Jobs :
        Check(job).fallback = Threw =>
            /\ Check(job).st = "fulfilled"
            /\ Check(job).value.error # NoError

\* C5 (as claimed): when the run has finished, the report of every file that
\* was read holds one line per link occurrence, in order.
C5_EveryOutcomeReported ==
    Finalized =>
        \A f \in 1..Len(files) :
            WasRead(f) =>
                /\ Len(report[f]) = Len(links[f])
                /\ \A i \in 1..Len(report[f]) : report[f][i].original = links[f][i]

\* C6 (as claimed): the number of outcomes counted as errors equals the
\* number of link checks whose status is absent or outside [200,300).
C6_ErrorCount ==
    Finalized => Len(allErrors) = Cardinality({job \in Jobs : Failing(Check(job))})

\* C7 (as claimed): a run that passed setup prints the failure table and the
\* totals, and exits non-zero exactly when allErrors is not empty.
C7_ExitPolicy ==
    Finalized =>
        /\ summary.table
        /\ summary.totals
        /\ (exitCode # 0) <=> (allErrors # <<>>)

C9_NoEarlyFinalization ==
    /\ summary.header =>
          /\ \A job \in Jobs : IsSettled(Check(job))
          /\ \A f \in 1..Len(files) : fileState[f] \in {"fulfilled", "rejected"}
          /\ jobQueue = <<>>
    /\ (pc = "exited" /\ Len(submitted) > 0) => summary.header

\* The summary of a run in which a check was rejected and another one was
\* fulfilled.
C9_Witness ==
    /\ summary.header
    /\ \E job \in Jobs : Check(job).st = "rejected"
    /\ \E job \in Jobs : Check(job).st = "fulfilled"

\* C10 (as claimed): at finalization countAllLinks is the number of link
\* occurrences of all files, the file total is the number of discovered
\* files, and allErrors has one entry per failing outcome.
C10_RunTotals ==
    Finalized =>
        /\ countAllLinks = SumLinks(Len(files))
        /\ Len(allErrors) = Cardinality({job \in Jobs : Failing(Check(job))})
        /\ summary.totals =>
              /\ summary.totalLinks = countAllLinks
              /\ summary.totalFiles = Len(files)
              /\ summary.failures = Len(allErrors)

\* C11 (as claimed): every outcome carries the source file of its link, and
\* the summary table is rendered with one row per entry of allErrors.
C11_FailureTable ==
    /\ \A job \in Jobs : Check(job).st = "fulfilled" => HasFile(Check(job).value)
    /\ Finalized => (summary.table /\ summary.rows = Len(allErrors))

\* C12: every outcome checkLink produces (the value of a fulfilled check) has
\* a numeric status, so status and error are never both absent; an error is
\* present exactly when the status came from the HEAD probe, and then, as
\* always, the status alone decides: a printed line is a success exactly
\* when its status is in [200,300), and allErrors holds exactly the printed
\* failures, with or without error.
C12_OutcomeInvariant ==
    /\ \A job \in Jobs :
          Check(job).st = "fulfilled" =>
              /\ Check(job).value.status \in Statuses
              /\ (Check(job).value.error # NoError) <=> Check(job).fetched
    /\ \A f \in FileIds : \A i \in 1..Len(report[f]) :
          /\ report[f][i].status = checks[f][i].value.status
          /\ report[f][i].ok <=>
                (checks[f][i].value.status >= 200 /\ checks[f][i].value.status < 300)
    /\ \A k \in 1..Len(allErrors) :
          ~(allErrors[k].status >= 200 /\ allErrors[k].status < 300)
    /\ Len(allErrors) =
          Cardinality({job \in Jobs : /\ job[2] <= Len(report[job[1]])
                                     /\ ~report[job[1]][job[2]].ok})

\* Two printed outcomes that both carry the puppeteer error: one with 200,
\* printed as a success, one with 404, printed as a failure.
C12_Witness ==
    /\ \E job \in Jobs :
          /\ job[2] <= Len(report[job[1]])
          /\ Check(job).value.error = PuppeteerError
          /\ Check(job).value.status = 200
          /\ report[job[1]][job[2]].ok
    /\ \E job \in Jobs :
          /\ job[2] <= Len(report[job[1]])
          /\ Check(job).value.error = PuppeteerError
          /\ Check(job).value.status = 404
          /\ ~report[job[1]][job[2]].ok

\* C13 (as claimed): a run that passed setup eventually reaches its summary.
C13_Termination == (pc = "waiting") ~> Finalized

\* C14 (as claimed): a run in which a file task failed (its file could not be
\* read, or its report loop threw) never exits with 0.
C14_UnexpectedFailureIsFatal ==
    (pc = "exited" /\ \E f \in 1..Len(files) : fileState[f] = "rejected")
        => exitCode # 0

\* C15 (as claimed): a run whose glob or cluster launch failed exits with 1
\* having dispatched no check and printed nothing of the report; and a run
\* that ended before the end of its report is always such a run.
C15_SetupErrorsFatal ==
    /\ (pc = "exited" /\ cluster.launches = 0) =>
          /\ exitCode = 1
          /\ submitted = <<>>
          /\ printed = <<>>
          /\ summary = NoSummary
    /\ (pc = "exited" /\ ~summary.totals) => cluster.launches = 0

(* ---------------------------- text functions --------------------------- *)
(* Strings are sequences of one-character strings. The functions below are *)
(* checked on their own, in SpecText: its initial states draw the          *)
(* arguments, its actions apply the functions.                             *)

\* Longest href drawn for resolvePath.
MaxHrefLen == 3

\* Longest source file path drawn for resolvePath.
MaxPathLen == 3

\* Longest link drawn for summarizeLink.
MaxLinkLen == 50

\* The characters of the drawn hrefs and paths.
HrefChars == {"/", ".", "a", "$", "&"}
PathChars == {"/", "f"}

StartsWith(s, p) == Len(s) >= Len(p) /\ SubSeq(s, 1, Len(p)) = p

\* Line 123: /^https?:\/\//.test(href)
IsHttpUrl(href) ==
    \/ StartsWith(href, <<"h", "t", "t", "p", ":", "/", "/">>)
    \/ StartsWith(href, <<"h", "t", "t", "p", "s", ":", "/", "/">>)

\* The replacement patterns of String.prototype.replace that the drawn
\* characters can spell: "$$" inserts "$", "$&" inserts the matched text.
RECURSIVE ExpandReplacement(_, _)
ExpandReplacement(rep, matched) ==
    IF rep = <<>> THEN <<>>
    ELSE IF Len(rep) >= 2 /\ rep[1] = "$" /\ rep[2] = "$"
         THEN <<"$">> \o ExpandReplacement(SubSeq(rep, 3, Len(rep)), matched)
    ELSE IF Len(rep) >= 2 /\ rep[1] = "$" /\ rep[2] = "&"
         THEN matched \o ExpandReplacement(SubSeq(rep, 3, Len(rep)), matched)
    ELSE <<rep[1]>> \o ExpandReplacement(Tail(rep), matched)

\* Where /\/?[^/]+$/ matches in `from`: the leftmost start of a match that
\* reaches the end, 0 when there is none (the string is empty or ends
\* with "/").
MatchStart(from) ==
    LET n == Len(from)
        starts == {p \in 1..n :
                     \/ \A k \in p..n : from[k] # "/"
                     \/ from[p] = "/" /\ p < n /\ \A k \in (p + 1)..n : from[k] # "/"}
    IN  IF starts = {} THEN 0 ELSE CHOOSE p \in starts : \A q \in starts : p <= q

\* Lines 153-159.
resolvePath(from, to) ==
    IF to # <<>> /\ to[1] = "/" THEN to
    ELSE LET p == MatchStart(from)
         IN  IF p = 0 THEN from
             ELSE SubSeq(from, 1, p - 1)
                    \o ExpandReplacement(<<"/">> \o to, SubSeq(from, p, Len(from)))

\* process.env.GITHUB_REPOSITORY and process.env.GITHUB_SHA of the run.
repo == <<"o", "/", "r">>
sha == <<"c">>

\* Lines 162-164.
githubUrlFromPath(path) ==
    <<"h", "t", "t", "p", "s", ":", "/", "/", "g", "i", "t", "h", "u", "b", ".",
      "c", "o", "m", "/">> \o repo \o <<"/", "b", "l", "o", "b", "/">> \o sha
        \o <<"/">> \o path

\* Lines 166-170.
summaryEllipsis == <<".", ".", ".", ".", ".", ".">>
summaryLinkMaxLength ==
    Len("https://d2mxu07abcdefg") + Len(summaryEllipsis) + Len("+at+2.24.55+PM.png")

\* Variant: a link of exactly the maximum length is elided too.
summarizeLinkStrict(link) ==
    LET len == Len(link)
        twiceHalf == summaryLinkMaxLength - Len(summaryEllipsis)
    IN  IF len < summaryLinkMaxLength THEN link
        ELSE SubSeq(link, 1, twiceHalf \div 2) \o summaryEllipsis
               \o SubSeq(link, ((2 * len - twiceHalf) \div 2) + 1, len)

\* Lines 173-180. `half` is a JavaScript number, twiceHalf / 2; substring
\* truncates its arguments to integers.
summarizeLink(link) ==
    LET len == Len(link)
        twiceHalf == summaryLinkMaxLength - Len(summaryEllipsis)
    IN  IF len <= summaryLinkMaxLength THEN link
        ELSE SubSeq(link, 1, twiceHalf \div 2) \o summaryEllipsis
               \o SubSeq(link, ((2 * len - twiceHalf) \div 2) + 1, len)

\* The relative paths of markdown files that stripRoot(file) can give:
\* non-empty segments separated by single slashes.
SourceFiles ==
    {p \in SeqsUpTo(PathChars, MaxPathLen) :
        /\ p # <<>>
        /\ p[1] # "/"
        /\ p[Len(p)] # "/"
        /\ \A k \in 1..(Len(p) - 1) : ~(p[k] = "/" /\ p[k + 1] = "/")}

\* The hrefs drawn: every string over HrefChars up to MaxHrefLen, and some
\* that do or nearly do match ^https?://.
DrawnHrefs ==
    SeqsUpTo(HrefChars, MaxHrefLen)
        \cup {<<"h", "t", "t", "p", ":", "/", "/", "a">>,
              <<"h", "t", "t", "p", "s", ":", "/", "/", "a", "/", "a">>,
              <<"h", "t", "t", "p", ":", "/", "a">>,
              <<"h", "t", "t", "p", "s", "/", "/", "a">>}

\* The links drawn for summarizeLink: one of each length, no two
\* neighbouring characters alike.
LinkChars == <<"a", "b", "c", "d", "e", "f", "g">>
DrawnLink(n) == [i \in 1..n |-> LinkChars[((i - 1) % Len(LinkChars)) + 1]]

runVars == <<pc, exitCode, files, fileState, links, checks, jobQueue, submitted,
             started, countAllLinks, countFiles, allErrors, printed, report,
             summary, cluster, overtaken>>

InitText ==
    /\ pc = "glob"
    /\ exitCode = -1
    /\ files = <<>>
    /\ fileState = [f \in FileIds |-> "none"]
    /\ links = [f \in FileIds |-> <<>>]
    /\ checks = [f \in FileIds |-> <<>>]
    /\ jobQueue = <<>>
    /\ submitted = <<>>
    /\ started = <<>>
    /\ countAllLinks = 0
    /\ countFiles = 1
    /\ allErrors = <<>>
    /\ printed = <<>>
    /\ report = [f \in FileIds |-> <<>>]
    /\ summary = NoSummary
    /\ cluster = NoCluster
    /\ overtaken = [f \in FileIds |-> FALSE]
    /\ \/ \E from \in SourceFiles, to \in DrawnHrefs :
             text = [pc |-> "resolve", from |-> from, to |-> to]
       \/ \E n \in 0..MaxLinkLen :
             text = [pc |-> "summarize", link |-> DrawnLink(n)]

\* Lines 118-124: checkLink(cluster, file)({ href }) up to the URL it submits.
CheckLinkTarget ==
    /\ text.pc = "resolve"
    /\ text' = IF IsHttpUrl(text.to)
               THEN [pc |-> "resolved", from |-> text.from, to |-> text.to,
                     called |-> FALSE, path |-> <<>>, url |-> text.to]
               ELSE [pc |-> "resolved", from |-> text.from, to |-> text.to,
                     called |-> TRUE, path |-> resolvePath(text.from, text.to),
                     url |-> githubUrlFromPath(resolvePath(text.from, text.to))]
    /\ UNCHANGED runVars

\* Line 91: summarizeLink(original) for a row of the table.
SummarizeRow ==
    /\ text.pc = "summarize"
    /\ text' = [pc |-> "summarized", link |-> text.link, out |-> summarizeLink(text.link)]
    /\ UNCHANGED runVars

NextText ==
    \/ CheckLinkTarget
    \/ SummarizeRow

SpecText == InitText /\ [][NextText]_vars

\* The directory prefix of a path: up to and including its last slash.
DirPrefix(from) ==
    LET slashes == {k \in 1..Len(from) : from[k] = "/"}
    IN  IF slashes = {} THEN <<>>
        ELSE SubSeq(from, 1, CHOOSE k \in slashes : \A j \in slashes : j <= k)

\* C16 (as claimed): an href matching ^https?:// is submitted unchanged and
\* not resolved; an href starting with "/" is resolved to itself; for any
\* other href the resolved path is the directory prefix of the source file
\* followed by the href, character for character.
C16_TextualResolution ==
    text.pc = "resolved" =>
        /\ IsHttpUrl(text.to) => (~text.called /\ text.url = text.to)
        /\ ~IsHttpUrl(text.to) => text.called
        /\ (text.called /\ StartsWith(text.to, <<"/">>)) => text.path = text.to
        /\ (text.called /\ ~StartsWith(text.to, <<"/">>)) =>
              text.path = DirPrefix(text.from) \o text.to

\* C17: summarizeLink returns a link no longer than the maximum width
\* unchanged; a longer link becomes a string of exactly the maximum width:
\* a prefix of the link, the ellipsis marker, and a suffix of the link as
\* long as the prefix. The result is never longer than the maximum width.
C17_LongLinkElision ==
    text.pc = "summarized" =>
        LET link == text.link
            out == text.out
            len == Len(link)
        IN  /\ Len(out) <= summaryLinkMaxLength
            /\ len <= summaryLinkMaxLength => out = link
            /\ len > summaryLinkMaxLength =>
                  /\ Len(out) = summaryLinkMaxLength
                  /\ \E n \in 0..len :
                        out = SubSeq(link, 1, n) \o <<".", ".", ".", ".", ".", ".">>
                                \o SubSeq(link, len - n + 1, len)

\* A link one longer than the maximum width has been elided, and a link of
\* exactly the maximum width has been returned whole.
C17_Witness ==
    /\ text.pc = "summarized"
    /\ Len(text.link) = summaryLinkMaxLength + 1
    /\ text.out # text.link
    /\ Len(text.out) = summaryLinkMaxLength

\* The checks whose HEAD probe is pending.
Probing == {job \in Jobs : Check(job).st = "fallback"}

\* C18: the HEAD probe holds no context of the pool. A check whose probe
\* is pending is not among the jobs holding a context, and whenever a job
\* waits in the queue while fewer than clusterMaxConcurrent navigations
\* are running, the job can start, however many probes are pending.
C18_FallbackOutsidePool ==
    /\ Probing \cap InFlight = {}
    /\ (/\ pc = "waiting"
        /\ jobQueue # <<>>
        /\ Cardinality({job \in Jobs : Check(job).st = "primary"}) < clusterMaxConcurrent)
           => ENABLED StartPrimary

\* More probes are pending than the pool has contexts, the later of them
\* for a job that started while an earlier probe was already pending.
C18_Witness ==
    /\ Cardinality(Probing) > clusterMaxConcurrent
    /\ \E job \in Probing : Len(started) > clusterMaxConcurrent /\ job = started[Len(started)]

\* C19: the checks of one file are submitted in extraction order, and the
\* lines listed under the file's header are the outcomes of its links in
\* extraction order, also when a later check settled before an earlier one.
C19_ExtractionOrder ==
    /\ \A a, b \in 1..Len(submitted) :
          (a < b /\ submitted[a][1] = submitted[b][1]) => submitted[a][2] < submitted[b][2]
    /\ \A f \in FileIds :
          /\ Len(report[f]) <= Len(links[f])
          /\ \A i \in 1..Len(report[f]) :
                /\ report[f][i].original = links[f][i]
                /\ report[f][i].status = checks[f][i].value.status

\* A file with two different links is listed in full although its second
\* check settled first.
C19_Witness ==
    \E f \in FileIds :
        /\ overtaken[f]
        /\ Len(links[f]) = 2
        /\ links[f][1] # links[f][2]
        /\ Len(report[f]) = 2
        /\ report[f][1].status # report[f][2].status

\* C20: the cluster is launched at most once, and exactly once before the
\* file tasks start and any check is submitted; a check that has not settled always has the cluster
\* up; once the cluster is gone every submitted check has settled and no
\* file task is left that could submit another.
C20_PoolLifecycle ==
    /\ cluster.launches <= 1
    /\ cluster.up => cluster.launches = 1
    /\ pc = "waiting" => cluster.up
    /\ submitted # <<>> => cluster.launches = 1
    /\ \A job \in Jobs : ~IsSettled(Check(job)) => cluster.up
    /\ (cluster.launches = 1 /\ ~cluster.up) =>
          /\ pc = "exited"
          /\ jobQueue = <<>>
          /\ \A k \in 1..Len(submitted) : IsSettled(Check(submitted[k]))
          /\ \A k \in 1..Len(files) : fileState[files[k]] \in {"fulfilled", "rejected"}

\* The cluster served every check that the run's links allow, one of them
\* through its probe, and is gone.
C20_Witness ==
    /\ cluster.launches = 1
    /\ ~cluster.up
    /\ Len(submitted) = MaxLinks
    /\ \E job \in Jobs : Check(job).fetched

\* C21 (as claimed): for every href that does not match ^https?://, the URL
\* checkLink submits is https://github.com/<repo>/blob/<sha>/ followed by
\* a path that does not start with "/": exactly one slash stands between
\* the commit SHA and the path, for a source file at the repository root
\* and for an href starting with "/" as for any other.
C21_SingleSlashAfterSha ==
    (text.pc = "resolved" /\ ~IsHttpUrl(text.to)) =>
        LET blob == <<"h", "t", "t", "p", "s", ":", "/", "/", "g", "i", "t", "h",
                      "u", "b", ".", "c", "o", "m", "/">> \o repo
                      \o <<"/", "b", "l", "o", "b", "/">> \o sha \o <<"/">>
            rest == SubSeq(text.url, Len(blob) + 1, Len(text.url))
        IN  /\ StartsWith(text.url, blob)
            /\ ~StartsWith(rest, <<"/">>)

====
